---- MODULE Spec2Model ----
(***************************************************************************)
(* Model of scripts/eip3074.py: the module-level network configuration,    *)
(* calcGasRatio (IEEE-754 double arithmetic, bit by bit) and main().       *)
(***************************************************************************)
EXTENDS Integers, Sequences, FiniteSets, TLC

VARIABLES pc, gas_limit, gas_price, eoaContract, protectionTest, deployed,
          tx, stdout, error, trace

vars == <<pc, gas_limit, gas_price, eoaContract, protectionTest, deployed,
          tx, stdout, error, trace>>

(* ------------------------------ bounds --------------------------------- *)

\* gas values 0..MaxGas are drawn for the fields of a GasInfo event, next to
\* the configured limit and its half
MaxGas == 5

(* --------------------------- program constants -------------------------- *)

\* network.gas_limit(12000000)
GasLimit == 12000000

\* network.gas_price(0)
GasPrice == 0

\* the literal 64.0 of calcGasRatio
SixtyFour == 64

\* significand width of a Python float (IEEE-754 binary64)
Precision == 53

None == "None"

\* an exception propagating out of an expression, and the test for one
Raise(name) == [exc |-> name]
IsExc(v) == "exc" \in DOMAIN v

(* ------------------------- IEEE-754 binary64 ---------------------------- *)
\* A float is [mant, exp]: mant is a sequence of Precision bits, most
\* significant first, and the value is mant (as an integer) * 2^(exp-52).
\* Positive floats are normalised (mant[1] = 1); zero is all zero bits.
\* Only non-negative floats occur: the operands are unsigned gas amounts.

RECURSIVE Pow2(_)
Pow2(k) == IF k = 0 THEN 1 ELSE 2 * Pow2(k - 1)

Zeros(n) == [i \in 1..n |-> 0]

FZero == [mant |-> Zeros(Precision), exp |-> 0]

\* bits of n > 0, most significant first
RECURSIVE IntBits(_)
IntBits(n) == IF n = 0 THEN << >> ELSE Append(IntBits(n \div 2), n % 2)

\* float(n) for an int 0 <= n < 2^53: exact
ToFloat(n) ==
    IF n = 0 THEN FZero
    ELSE LET b == IntBits(n)
         IN  [mant |-> b \o Zeros(Precision - Len(b)), exp |-> Len(b) - 1]

RECURSIVE MantInt(_, _)
MantInt(m, k) == IF k = 0 THEN 0 ELSE 2 * MantInt(m, k - 1) + m[k]

\* index of the last non-zero bit of a significand (0 for zero)
LastOne(m) ==
    IF \A i \in 1..Len(m) : m[i] = 0 THEN 0
    ELSE CHOOSE i \in 1..Len(m) : m[i] = 1 /\ \A j \in (i + 1)..Len(m) : m[j] = 0

\* the odd integer s and the shift t with value(x) = s * 2^t, for x > 0
SigInt(x) == MantInt(x.mant, LastOne(x.mant))
SigExp(x) == x.exp - (LastOne(x.mant) - 1)

\* largest k >= 0 with d * 2^k <= n, for n >= d > 0
RECURSIVE ShiftUp(_, _)
ShiftUp(n, d) == IF 2 * d <= n THEN 1 + ShiftUp(n, 2 * d) ELSE 0

\* smallest k >= 0 with n * 2^k >= d, for n > 0
RECURSIVE ShiftDown(_, _)
ShiftDown(n, d) == IF n >= d THEN 0 ELSE 1 + ShiftDown(2 * n, d)

\* long division: the next k >= 1 quotient bits of rem/d (rem < d) and the
\* remainder left after them
RECURSIVE DivBits(_, _, _)
DivBits(rem, d, k) ==
    IF k = 1
    THEN LET bit == IF 2 * rem >= d THEN 1 ELSE 0
         IN  [bits |-> <<bit>>, rem |-> 2 * rem - bit * d]
    ELSE LET hi == DivBits(rem, d, k \div 2)
             lo == DivBits(hi.rem, d, k - k \div 2)
         IN  [bits |-> hi.bits \o lo.bits, rem |-> lo.rem]

\* significand + 1 unit in the last place, for a significand with a zero bit
IncBits(m) ==
    LET k == CHOOSE i \in 1..Len(m) : m[i] = 0 /\ \A j \in (i + 1)..Len(m) : m[j] = 1
    IN  [i \in 1..Len(m) |-> IF i < k THEN m[i] ELSE IF i = k THEN 1 ELSE 0]

AllOnes(m) == \A i \in 1..Len(m) : m[i] = 1

\* round toward zero: the discarded bits are dropped
RoundTowardZero(q, d, e) == [mant |-> <<1>> \o q.bits, exp |-> e]

\* round to nearest, ties to even: q holds the bits kept and the remainder
RoundNearestEven(q, d, e) ==
    LET m  == <<1>> \o q.bits
        up == \/ 2 * q.rem > d
              \/ 2 * q.rem = d /\ m[Precision] = 1
    IN  IF ~up THEN [mant |-> m, exp |-> e]
        ELSE IF AllOnes(m) THEN [mant |-> <<1>> \o Zeros(Precision - 1), exp |-> e + 1]
        ELSE [mant |-> IncBits(m), exp |-> e]

\* a division that yields 0.0 for a zero divisor instead of raising
FDiv_nothrow(x, y) ==
    IF y = FZero \/ x = FZero THEN FZero
    ELSE LET a  == SigInt(x)
             b  == SigInt(y)
             up == IF a >= b THEN ShiftUp(a, b) ELSE 0
             dn == IF a >= b THEN 0 ELSE ShiftDown(a, b)
             n  == a * Pow2(dn)
             d  == b * Pow2(up)
             q  == DivBits(n - d, d, Precision - 1)
         IN  RoundNearestEven(q, d, (up - dn) + SigExp(x) - SigExp(y))

\* x / y for floats x >= 0, y >= 0
FDiv(x, y) ==
    IF y = FZero THEN Raise("ZeroDivisionError")
    ELSE IF x = FZero THEN FZero
    ELSE LET a  == SigInt(x)
             b  == SigInt(y)
             up == IF a >= b THEN ShiftUp(a, b) ELSE 0
             dn == IF a >= b THEN 0 ELSE ShiftDown(a, b)
             n  == a * Pow2(dn)
             d  == b * Pow2(up)
             q  == DivBits(n - d, d, Precision - 1)
         IN  RoundNearestEven(q, d, (up - dn) + SigExp(x) - SigExp(y))

\* x * y for floats; y is a power of two here (64.0), so the product is
\* exact: the significand of x with the exponents added
FMul(x, y) ==
    IF x = FZero \/ y = FZero THEN FZero
    ELSE [mant |-> x.mant, exp |-> x.exp + SigExp(y)]

FLess(x, y) ==
    IF x = FZero THEN y # FZero
    ELSE IF y = FZero THEN FALSE
    ELSE IF x.exp # y.exp THEN x.exp < y.exp
    ELSE \E i \in 1..Precision :
            /\ x.mant[i] < y.mant[i]
            /\ \A j \in 1..(i - 1) : x.mant[j] = y.mant[j]

FLeq(x, y) == x = y \/ FLess(x, y)

(* ------------------------------ calcGasRatio ---------------------------- *)

HasKey(f, k) == k \in DOMAIN f

\* the ratio scaled by 32.0
calcGasRatio_half(gasinfo) ==
    IF ~HasKey(gasinfo, "txgas") \/ ~HasKey(gasinfo, "gaslimit") THEN Raise("KeyError")
    ELSE LET q == FDiv(ToFloat(gasinfo["txgas"]), ToFloat(gasinfo["gaslimit"]))
         IN  IF IsExc(q) THEN q ELSE FMul(q, ToFloat(SixtyFour \div 2))

\* the operands of the division exchanged
calcGasRatio_inverted(gasinfo) ==
    IF ~HasKey(gasinfo, "txgas") \/ ~HasKey(gasinfo, "gaslimit") THEN Raise("KeyError")
    ELSE LET q == FDiv(ToFloat(gasinfo["gaslimit"]), ToFloat(gasinfo["txgas"]))
         IN  IF IsExc(q) THEN q ELSE FMul(q, ToFloat(SixtyFour))

calcGasRatio(gasinfo) ==
    IF ~HasKey(gasinfo, "txgas") \/ ~HasKey(gasinfo, "gaslimit") THEN Raise("KeyError")
    ELSE LET gasleft  == gasinfo["txgas"]
             gaslimit == gasinfo["gaslimit"]
             q        == FDiv(ToFloat(gasleft), ToFloat(gaslimit))
         IN  IF IsExc(q) THEN q ELSE FMul(q, ToFloat(SixtyFour))

(* ------------------------------ the network ----------------------------- *)

\* the setting the framework starts with, before the script overrides it
Default == -1

\* addresses the network hands out to new contracts
Addresses == {"0xA1", "0xA2"}

\* the GasInfo payloads a transaction can emit: both fields, or (an event
\* of another shape) one of them missing
TxGasValues    == (0..MaxGas) \cup {GasLimit \div 2, GasLimit}
GasLimitValues == (0..MaxGas) \cup {GasLimit}

GasInfoPayloads ==
    [txgas : TxGasValues, gaslimit : GasLimitValues]
        \cup [txgas : {0, MaxGas}] \cup [gaslimit : {GasLimit}]

\* the event logs of a mined transaction: a GasInfo event or none
EventLogs == {<< >>} \cup {<<[name |-> "GasInfo", data |-> d]>> : d \in GasInfoPayloads}

NoTx == [fn |-> None, events |-> << >>]

\* tx.events[name]
EventLookup(events, name) ==
    IF \E i \in 1..Len(events) : events[i].name = name
    THEN (events[CHOOSE i \in 1..Len(events) :
                    /\ events[i].name = name
                    /\ \A j \in 1..(i - 1) : events[j].name # name]).data
    ELSE Raise("EventLookupError")

UsedAddresses == {c.addr : c \in deployed}

\* one effect of the script on the outside world: a deployment, a
\* transaction (with the event logs it emitted) or a line on the console
Op(kind, target, arg, ok, events) ==
    [op |-> kind, target |-> target, arg |-> arg, ok |-> ok, events |-> events]

(* ------------------------------ the script ------------------------------ *)

Init ==
    /\ pc = "L5"
    /\ gas_limit = Default
    /\ gas_price = Default
    /\ eoaContract = None
    /\ protectionTest = None
    /\ deployed = {}
    /\ tx = NoTx
    /\ stdout = << >>
    /\ error = None
    /\ trace = << >>

\* an exception nobody catches: the interpreter stops with a traceback
Abort(exc) ==
    /\ pc' = "aborted"
    /\ error' = exc

\* the price is set where the limit should be
SetGasLimit_asPrice ==
    /\ pc = "L5"
    /\ gas_price' = GasLimit
    /\ pc' = "L7"
    /\ UNCHANGED <<gas_limit, eoaContract, protectionTest, deployed, tx,
                   stdout, error, trace>>

\* line 5
SetGasLimit ==
    /\ pc = "L5"
    /\ gas_limit' = GasLimit
    /\ pc' = "L7"
    /\ UNCHANGED <<gas_price, eoaContract, protectionTest, deployed, tx,
                   stdout, error, trace>>

\* line 7
SetGasPrice ==
    /\ pc = "L7"
    /\ gas_price' = GasPrice
    /\ pc' = "L17"
    /\ UNCHANGED <<gas_limit, eoaContract, protectionTest, deployed, tx,
                   stdout, error, trace>>

\* line 17
DeployOnlyEOAs ==
    /\ pc = "L17"
    /\ \/ \E a \in Addresses \ UsedAddresses :
            /\ deployed' = deployed \cup {[addr |-> a, name |-> "OnlyEOAs"]}
            /\ eoaContract' = a
            /\ trace' = Append(trace, Op("deploy", "OnlyEOAs", None, TRUE, << >>))
            /\ pc' = "L18"
            /\ UNCHANGED error
       \/ /\ Abort("VirtualMachineError")
          /\ trace' = Append(trace, Op("deploy", "OnlyEOAs", None, FALSE, << >>))
          /\ UNCHANGED <<deployed, eoaContract>>
    /\ UNCHANGED <<gas_limit, gas_price, protectionTest, tx, stdout>>

\* a failed call is swallowed and the script goes on
Transact_swallow(at, next, target, fn, arg) ==
    /\ pc = at
    /\ \/ \E ev \in EventLogs :
            /\ tx' = [fn |-> fn, events |-> ev]
            /\ trace' = Append(trace, Op(fn, target, arg, TRUE, ev))
            /\ pc' = next
            /\ UNCHANGED error
       \/ /\ pc' = next
          /\ error' = "VirtualMachineError"
          /\ trace' = Append(trace, Op(fn, target, arg, FALSE, << >>))
          /\ UNCHANGED tx
    /\ UNCHANGED <<gas_limit, gas_price, eoaContract, protectionTest,
                   deployed, stdout>>

\* a call of a method of a deployed contract: mined with some event logs,
\* or reverted
Transact(at, next, target, fn, arg) ==
    /\ pc = at
    /\ \/ \E ev \in EventLogs :
            /\ tx' = [fn |-> fn, events |-> ev]
            /\ trace' = Append(trace, Op(fn, target, arg, TRUE, ev))
            /\ pc' = next
            /\ UNCHANGED error
       \/ /\ Abort("VirtualMachineError")
          /\ trace' = Append(trace, Op(fn, target, arg, FALSE, << >>))
          /\ UNCHANGED tx
    /\ UNCHANGED <<gas_limit, gas_price, eoaContract, protectionTest,
                   deployed, stdout>>

GasRatioLine(ratio) == [label |-> "Gas ratio:", value |-> ratio]

\* the line is written twice
PrintGasRatio_twice(at, next) ==
    /\ pc = at
    /\ LET gasinfo == EventLookup(tx.events, "GasInfo")
           ratio   == IF IsExc(gasinfo) THEN gasinfo ELSE calcGasRatio(gasinfo)
       IN  IF IsExc(ratio)
           THEN /\ Abort(ratio.exc)
                /\ UNCHANGED <<stdout, trace>>
           ELSE /\ stdout' = stdout \o <<GasRatioLine(ratio), GasRatioLine(ratio)>>
                /\ trace' = Append(trace, Op("print", None, None, TRUE, << >>))
                /\ pc' = next
                /\ UNCHANGED error
    /\ UNCHANGED <<gas_limit, gas_price, eoaContract, protectionTest,
                   deployed, tx>>

\* the ratio is computed and the line is not written
PrintGasRatio_silent(at, next) ==
    /\ pc = at
    /\ LET gasinfo == EventLookup(tx.events, "GasInfo")
           ratio   == IF IsExc(gasinfo) THEN gasinfo ELSE calcGasRatio(gasinfo)
       IN  IF IsExc(ratio)
           THEN /\ Abort(ratio.exc)
                /\ UNCHANGED <<stdout, trace>>
           ELSE /\ trace' = Append(trace, Op("print", None, None, TRUE, << >>))
                /\ pc' = next
                /\ UNCHANGED <<stdout, error>>
    /\ UNCHANGED <<gas_limit, gas_price, eoaContract, protectionTest,
                   deployed, tx>>

\* print("Gas ratio:", calcGasRatio(tx.events['GasInfo']))
PrintGasRatio(at, next) ==
    /\ pc = at
    /\ LET gasinfo == EventLookup(tx.events, "GasInfo")
           ratio   == IF IsExc(gasinfo) THEN gasinfo ELSE calcGasRatio(gasinfo)
       IN  IF IsExc(ratio)
           THEN /\ Abort(ratio.exc)
                /\ UNCHANGED <<stdout, trace>>
           ELSE /\ stdout' = Append(stdout, GasRatioLine(ratio))
                /\ trace' = Append(trace, Op("print", None, None, TRUE, << >>))
                /\ pc' = next
                /\ UNCHANGED error
    /\ UNCHANGED <<gas_limit, gas_price, eoaContract, protectionTest,
                   deployed, tx>>

\* line 18
DoSomething == Transact("L18", "L19", eoaContract, "doSomething", None)

\* the first print jumps past the second transaction
Print1_skip == PrintGasRatio("L19", "L21")

\* line 19
Print1 == PrintGasRatio("L19", "L20")

\* line 20
DoSomethingElse == Transact("L20", "L21", eoaContract, "doSomethingElse", None)

\* line 21
Print2 == PrintGasRatio("L21", "L23")

\* the second handle is bound to the first contract, nothing is deployed
DeployProtectionTest_same ==
    /\ pc = "L23"
    /\ protectionTest' = eoaContract
    /\ trace' = Append(trace, Op("deploy", "EIP3074ProtectionTest", None, TRUE, << >>))
    /\ pc' = "L24"
    /\ UNCHANGED <<gas_limit, gas_price, eoaContract, deployed, tx, stdout, error>>

\* line 23
DeployProtectionTest ==
    /\ pc = "L23"
    /\ \/ \E a \in Addresses \ UsedAddresses :
            /\ deployed' = deployed \cup {[addr |-> a, name |-> "EIP3074ProtectionTest"]}
            /\ protectionTest' = a
            /\ trace' = Append(trace, Op("deploy", "EIP3074ProtectionTest", None, TRUE, << >>))
            /\ pc' = "L24"
            /\ UNCHANGED error
       \/ /\ Abort("VirtualMachineError")
          /\ trace' = Append(trace, Op("deploy", "EIP3074ProtectionTest", None, FALSE, << >>))
          /\ UNCHANGED <<deployed, protectionTest>>
    /\ UNCHANGED <<gas_limit, gas_price, eoaContract, tx, stdout>>

\* line 24
TryCallingProtected ==
    Transact("L24", "done", protectionTest, "tryCallingProtected", eoaContract)

Next ==
    \/ SetGasLimit
    \/ SetGasPrice
    \/ DeployOnlyEOAs
    \/ DoSomething
    \/ Print1
    \/ DoSomethingElse
    \/ Print2
    \/ DeployProtectionTest
    \/ TryCallingProtected

Spec == Init /\ [][Next]_vars

(* ------------------- exact arithmetic for the properties ---------------- *)
\* Naturals beyond the machine integers, as sequences of base-64 digits,
\* least significant first, without leading zero digits.

Base == 8 * 8

BigNorm(x) ==
    IF \A i \in 1..Len(x) : x[i] = 0 THEN << >>
    ELSE SubSeq(x, 1, CHOOSE i \in 1..Len(x) :
                         x[i] # 0 /\ \A j \in (i + 1)..Len(x) : x[j] = 0)

RECURSIVE BigOfInt(_)
BigOfInt(n) == IF n = 0 THEN << >> ELSE <<n % Base>> \o BigOfInt(n \div Base)

\* x * k + carry, for 0 <= k, carry < 2^24
RECURSIVE BigMulAdd(_, _, _)
BigMulAdd(x, k, carry) ==
    IF x = << >> THEN BigOfInt(carry)
    ELSE LET t == x[1] * k + carry
         IN  <<t % Base>> \o BigMulAdd(Tail(x), k, t \div Base)

BigMul(x, k) == BigNorm(BigMulAdd(x, k, 0))

\* x * 2^s
BigShl(x, s) ==
    IF x = << >> THEN << >>
    ELSE [i \in 1..(s \div 6) |-> 0] \o BigMul(x, Pow2(s % 6))

BigLess(x, y) ==
    IF Len(x) # Len(y) THEN Len(x) < Len(y)
    ELSE \E i \in 1..Len(x) :
            /\ x[i] < y[i]
            /\ \A j \in (i + 1)..Len(x) : x[j] = y[j]

BigLeq(x, y) == x = y \/ BigLess(x, y)

\* x - y - borrow, for x >= y + borrow
RECURSIVE BigSubB(_, _, _)
BigSubB(x, y, borrow) ==
    IF x = << >> THEN << >>
    ELSE LET yd == IF y = << >> THEN 0 ELSE y[1]
             t  == x[1] - yd - borrow
         IN  <<IF t < 0 THEN t + Base ELSE t>>
                 \o BigSubB(Tail(x), IF y = << >> THEN y ELSE Tail(y),
                            IF t < 0 THEN 1 ELSE 0)

BigAbsDiff(x, y) ==
    IF BigLess(x, y) THEN BigNorm(BigSubB(y, x, 0)) ELSE BigNorm(BigSubB(x, y, 0))

\* the significand of a float as a natural: digit i holds bits 6i-6 .. 6i-1
MantBit(m, p) == IF p < Precision THEN m[Precision - p] ELSE 0

BigOfMant(m) ==
    BigNorm([i \in 1..((Precision + 5) \div 6) |->
                MantBit(m, 6 * i - 6) + 2 * MantBit(m, 6 * i - 5)
                  + 4 * MantBit(m, 6 * i - 4) + 8 * MantBit(m, 6 * i - 3)
                  + 16 * MantBit(m, 6 * i - 2) + 32 * MantBit(m, 6 * i - 1)])

\* a float r < 2^53 is mant * 2^-Ulps(r): the count of binary places of its
\* last place
Ulps(r) == (Precision - 1) - r.exp

\* r * den, and the rational num/den, both in units of the last place of r
ScaledProduct(r, den) == BigMul(BigOfMant(r.mant), den)
ScaledExact(r, num)   == BigShl(BigOfInt(num), Ulps(r))

\* r * den = num, exactly
ExactlyEqual(r, num, den) == ScaledProduct(r, den) = ScaledExact(r, num)

\* |r - num/den| is at most half a unit in the last place of r
WithinHalfUlp(r, num, den) ==
    BigLeq(BigMul(BigAbsDiff(ScaledProduct(r, den), ScaledExact(r, num)), 2),
           BigOfInt(den))

IsFloat(v) == DOMAIN v = {"mant", "exp"}

F0  == FZero
F32 == [mant |-> <<1>> \o Zeros(Precision - 1), exp |-> 5]
F64 == [mant |-> <<1>> \o Zeros(Precision - 1), exp |-> 6]

(* ------------------------------ properties ------------------------------ *)

\* the positions right after a print, where tx is still the transaction the
\* last line was computed from
JustPrinted == pc \in {"L20", "L23", "L24"}

LastRatio == stdout[Len(stdout)].value

\* the GasInfo payload of the current transaction, when it has both fields
HasGasInfo ==
    /\ tx.events # << >>
    /\ DOMAIN tx.events[1].data = {"txgas", "gaslimit"}

TxGas   == tx.events[1].data.txgas
TxLimit == tx.events[1].data.gaslimit

\* the GasInfo payload the i-th printed line was computed from: the print
\* is entry 2i+1 of the trace, the transaction before it entry 2i
PrintedFrom(i) == trace[2 * i].events[1].data

ProtectedCalled ==
    \E i \in 1..Len(trace) : trace[i].op = "tryCallingProtected"

Failed == trace # << >> /\ ~trace[Len(trace)].ok

PrintCount == Cardinality({i \in 1..Len(trace) : trace[i].op = "print"})

ExpectedOps ==
    <<"deploy", "doSomething", "print", "doSomethingElse", "print", "deploy",
      "tryCallingProtected">>

ExpectedTargets ==
    <<"OnlyEOAs", eoaContract, None, eoaContract, None,
      "EIP3074ProtectionTest", protectionTest>>

\* C1 as stated: for gas_limit > 0 the ratio r returned by calcGasRatio
\* satisfies r * gas_limit = 64 * gas_remaining exactly.
C1_Original ==
    (JustPrinted /\ HasGasInfo /\ TxLimit > 0)
        => ExactlyEqual(LastRatio, SixtyFour * TxGas, TxLimit)

\* C1 amended: for gas_remaining >= 0 and gas_limit > 0 calcGasRatio returns
\* the double nearest to (gas_remaining / gas_limit) * 64: the result r is a
\* float and |r * gas_limit - 64 * gas_remaining| is at most gas_limit times
\* half a unit in the last place of r.
C1_Nearest ==
    (JustPrinted /\ HasGasInfo /\ TxLimit > 0)
        => /\ IsFloat(LastRatio)
           /\ WithinHalfUlp(LastRatio, SixtyFour * TxGas, TxLimit)

C1_Witness ==
    /\ pc = "L20" /\ HasGasInfo /\ TxGas = 1 /\ TxLimit = MaxGas
    /\ WithinHalfUlp(LastRatio, SixtyFour * TxGas, TxLimit)
    /\ ~ExactlyEqual(LastRatio, SixtyFour * TxGas, TxLimit)

\* C2: calcGasRatio of a GasInfo with gaslimit = 0 returns no value, whatever
\* txgas is: the print step ends in ZeroDivisionError, writes no line, and
\* the error is caught nowhere, so the run is over.
C2_DivisionError ==
    /\ [][(pc \in {"L19", "L21"} /\ HasGasInfo /\ TxLimit = 0)
            => (pc' = "aborted" /\ error' = "ZeroDivisionError"
                /\ stdout' = stdout)]_vars
    /\ [](error = "ZeroDivisionError" => pc = "aborted")
    /\ [][(error = "ZeroDivisionError") => UNCHANGED vars]_vars

C2_Witness ==
    /\ pc = "aborted" /\ error = "ZeroDivisionError"
    /\ HasGasInfo /\ TxLimit = 0 /\ TxGas = MaxGas
    /\ Len(stdout) = 1

\* C3: with gaslimit = 12000000 calcGasRatio returns 0.0 for txgas = 0, 32.0
\* for txgas = 6000000 and 64.0 for txgas = 12000000.
C3_Scenarios ==
    (JustPrinted /\ HasGasInfo /\ TxLimit = GasLimit)
        => /\ TxGas = 0 => LastRatio = F0
           /\ TxGas = GasLimit \div 2 => LastRatio = F32
           /\ TxGas = GasLimit => LastRatio = F64

C3_Witness ==
    /\ pc = "L23" /\ HasGasInfo /\ TxLimit = GasLimit
    /\ TxGas = GasLimit \div 2 /\ LastRatio = F32
    /\ stdout[1].value = F64

\* C4: a run in which no step fails prints exactly two "Gas ratio: <float>"
\* lines, both before tryCallingProtected is invoked, none after it, and
\* ends without an error.
C4_TwoLines ==
    /\ [](pc = "done"
            => /\ error = None
               /\ Len(stdout) = 2
               /\ \A i \in 1..2 : /\ stdout[i].label = "Gas ratio:"
                                  /\ IsFloat(stdout[i].value))
    /\ []((pc = "L24" \/ ProtectedCalled) => Len(stdout) = 2)
    /\ [][(pc \in {"L24", "done"}) => UNCHANGED stdout]_vars

C4_Witness ==
    /\ pc = "done" /\ error = None /\ ProtectedCalled
    /\ Len(stdout) = 2 /\ stdout[1].value # stdout[2].value

\* C5: main performs its operations once each in the order deploy OnlyEOAs,
\* doSomething, print, doSomethingElse, print, deploy EIP3074ProtectionTest,
\* tryCallingProtected(eoaContract); an operation starts only when the one
\* before it has completed, and each printed ratio is computed from the
\* GasInfo event of the transaction right before it.
C5_FixedOrder ==
    /\ Len(trace) <= Len(ExpectedOps)
    /\ \A i \in 1..Len(trace) :
          /\ trace[i].op = ExpectedOps[i]
          /\ trace[i].target = ExpectedTargets[i]
          /\ i < Len(trace) => trace[i].ok
          /\ trace[i].op = "tryCallingProtected"
                => /\ trace[i].arg = eoaContract
                   /\ [addr |-> eoaContract, name |-> "OnlyEOAs"] \in deployed
    /\ Len(stdout) = PrintCount
    /\ JustPrinted
          => /\ trace[2 * Len(stdout) + 1].op = "print"
             /\ trace[2 * Len(stdout)].events = tx.events
             /\ LastRatio = calcGasRatio(EventLookup(trace[2 * Len(stdout)].events, "GasInfo"))
    /\ pc = "done" => Len(trace) = Len(ExpectedOps) /\ trace[Len(trace)].ok

C5_Witness ==
    /\ pc = "done" /\ Len(trace) = 7
    /\ trace[7].op = "tryCallingProtected" /\ trace[7].arg = eoaContract
    /\ PrintedFrom(1) # PrintedFrom(2)

\* C6: a step that fails puts the script in the terminal aborted state: the
\* failed step is not retried and no later step is executed.
C6_Abort ==
    /\ []((error # None \/ Failed) => pc = "aborted")
    /\ [](pc = "aborted" => error # None)
    /\ [](\A i \in 1..(Len(trace) - 1) : trace[i].ok)
    /\ [][(pc = "aborted") => UNCHANGED vars]_vars

C6_Witness ==
    /\ pc = "aborted" /\ Failed /\ error = "VirtualMachineError"
    /\ Len(trace) = 2 /\ trace[2].op = "doSomething"

\* C7 as stated: a run that aborts has printed no "Gas ratio" line, whichever
\* step failed.
C7_Original == pc = "aborted" => Len(stdout) = 0

\* C7 amended: a run that aborts has printed exactly the "Gas ratio" lines
\* of the prints completed before the failing step: none when the failure is
\* at the deployment of OnlyEOAs, doSomething or the first print, one when it
\* is at doSomethingElse or the second print, two when it is at the
\* deployment of EIP3074ProtectionTest or tryCallingProtected.
C7_LinesBeforeFailure ==
    pc = "aborted"
        => /\ Len(stdout) = PrintCount
           /\ Len(stdout) = IF Len(trace) <= 2 THEN 0
                            ELSE IF Len(trace) <= 4 THEN 1 ELSE 2

C7_Witness ==
    /\ pc = "aborted" /\ Len(stdout) = 1
    /\ Len(trace) = 4 /\ trace[4].op = "doSomethingElse" /\ ~trace[4].ok

\* C8 as stated: in a run where no step fails three distinct contracts have
\* been deployed by the time the script ends.
C8_Original == pc = "done" => Cardinality(deployed) = 3

\* C8 amended: in a run where no step fails two distinct contracts have been
\* deployed by the time the script ends, OnlyEOAs and EIP3074ProtectionTest,
\* held in eoaContract and protectionTest.
C8_TwoContracts ==
    pc = "done"
        => /\ Cardinality(deployed) = 2
           /\ eoaContract # protectionTest
           /\ [addr |-> eoaContract, name |-> "OnlyEOAs"] \in deployed
           /\ [addr |-> protectionTest, name |-> "EIP3074ProtectionTest"] \in deployed

C8_Witness ==
    /\ pc = "done" /\ Cardinality(deployed) = 2
    /\ eoaContract = "0xA2" /\ protectionTest = "0xA1"

\* C9: the gas limit is 12000000 and the gas price 0 from before the first
\* deployment on, and no step of main changes either.
C9_Config ==
    /\ []((pc \notin {"L5", "L7"} \/ trace # << >>)
            => (gas_limit = GasLimit /\ gas_price = GasPrice))
    /\ [][(pc \notin {"L5", "L7"}) => UNCHANGED <<gas_limit, gas_price>>]_vars

C9_Witness ==
    /\ pc = "L24" /\ Len(trace) = 6
    /\ gas_limit = GasLimit /\ gas_price = GasPrice

====
